---- MODULE Spec2Model ----
(***************************************************************************)
(* A model of the flashcards command line program (src/src/main.rs).       *)
(*                                                                         *)
(* One invocation of the program loads the deck from the file, runs one    *)
(* command (add, remove, list, flip) and saves the deck back.  add, remove *)
(* and list run from start to end without waiting for anything, so each is *)
(* one action.  flip on a non-empty deck enters FlipApp::run, which blocks *)
(* on the terminal; its loop is modelled step by step (pc = "loop" is the  *)
(* head of the while loop, pc = "read" is the blocking event::read()).     *)
(* pc = "shell" means no process is running: file, out and exit are what   *)
(* the last process left behind, state is the deck it held when it ended,  *)
(* and the session object is gone with the process.                        *)
(*                                                                         *)
(* Sequences are 1-based here and 0-based in the program: the program's    *)
(* cards[i] is cards[i + 1] below.                                         *)
(***************************************************************************)
EXTENDS Integers, Sequences, FiniteSets, TLC

(***************************************************************************)
(* Bounds of the model.                                                    *)
(***************************************************************************)
\* longest deck (add is not taken beyond it)
MaxLen == 3
\* largest correct / incorrect counter of a card found in the initial file
MaxCount == 1

\* usize::MAX.  The program's usize is 64 bits wide; the model checker's
\* integers are 32 bits wide, so the largest value it can hold stands for it.
UsizeMax == 2147483647

Fronts == {"a", "b"}
Backs == {"x"}

VARIABLES
    file,    \* the deck file on disk: [kind, text]
    pc,      \* "shell" | "loop" | "read"
    action,  \* the command of the current (or last) invocation, Args.action
    state,   \* DeckState.cards of the current (or last) process
    app,     \* <<>> or <<FlipApp>>: the session object, once constructed
    screen,  \* <<>> or <<frame>>: what the last terminal.draw showed
    out,     \* the lines printed to stdout by the current (or last) process
    exit,    \* how the last process ended: "none" | "ok" | "err" | "panic"
    hist,    \* history: the session's last two input events, each with the
             \* session's fields as they were before the event was handled
    saved,   \* history: what became of the fs::write of the current (or
             \* last) process: "none" (not reached) | "written" | "failed"
    turns    \* history: the session's f key presses plus its n and b key
             \* presses that changed the index, counted modulo 2

vars == <<file, pc, action, state, app, screen, out, exit, hist, saved, turns>>

(***************************************************************************)
(* Data.                                                                   *)
(***************************************************************************)
\* struct Flashcard
Flashcard(front, back, correct, incorrect) ==
    [front |-> front, back |-> back, correct |-> correct, incorrect |-> incorrect]

\* Flashcard::from: a new card has both counters at 0
Flashcard_from(front, back) == Flashcard(front, back, 0, 0)

\* the cards a deck file may hold initially
FileCards ==
    {Flashcard(f, b, c, i) : f \in Fronts, b \in Backs,
                             c \in 0..MaxCount, i \in 0..MaxCount}

\* DeckState::new
DeckState_new == <<>>

\* enum Action, one record shape for the four variants
Act(type, front, back, index) ==
    [type |-> type, front |-> front, back |-> back, index |-> index]

\* a line on stdout, one record shape for all println! calls
Msg(text, n, front, back) == [text |-> text, n |-> n, front |-> front, back |-> back]

\* enum Side
Sides == {"Front", "Back"}

\* mutant of toggle: the Back arm returns Back
toggle_stuck(side) == "Back"

\* Side::toggle
toggle(side) == IF side = "Front" THEN "Back" ELSE "Front"

(***************************************************************************)
(* The sampling weight of a card (spec section 4.1), a rational number     *)
(* num / den.  src/src/main.rs has no code for it: its only review order   *)
(* is Order::Sequential and nothing in it reads correct or incorrect.      *)
(***************************************************************************)
\* mutant of weight: the plain error ratio incorrect / (correct + incorrect)
weight_plain(card) ==
    IF card.correct + card.incorrect = 0
        THEN [num |-> 3, den |-> 1]
        ELSE [num |-> card.incorrect, den |-> card.correct + card.incorrect]

\* weight: 3.0 for a card never answered, else (incorrect + 1) / (correct +
\* incorrect)
weight(card) ==
    IF card.correct + card.incorrect = 0
        THEN [num |-> 3, den |-> 1]
        ELSE [num |-> card.incorrect + 1, den |-> card.correct + card.incorrect]

(***************************************************************************)
(* usize subtraction.  The build decides what a - b does when b > a: with  *)
(* overflow checks (debug profile) it panics, without (release profile) it *)
(* wraps around.  Both outcomes are kept.                                  *)
(***************************************************************************)
usize_sub(a, b) ==
    IF a >= b
        THEN {[panic |-> FALSE, val |-> a - b]}
        ELSE {[panic |-> TRUE, val |-> 0],
              [panic |-> FALSE, val |-> UsizeMax - (b - a) + 1]}

(***************************************************************************)
(* DeckState.                                                              *)
(***************************************************************************)
\* mutant of add_card: the deck is rebuilt from the texts of its cards, so
\* their counters start again at 0
add_card_resets(cards, flashcard) ==
    Append([j \in 1..Len(cards) |-> Flashcard_from(cards[j].front, cards[j].back)],
           flashcard)

\* mutant of add_card: the card is put in front (Vec::insert(0, ..))
add_card_front(cards, flashcard) == << flashcard >> \o cards

\* DeckState::add_card: Vec::push
add_card(cards, flashcard) == Append(cards, flashcard)

\* mutant of vec_remove: the card after the one asked for is removed
vec_remove_next(cards, index) ==
    SubSeq(cards, 1, index + 1) \o SubSeq(cards, index + 3, Len(cards))

\* Vec::remove(index), index < len: the later cards shift left by one
vec_remove(cards, index) ==
    SubSeq(cards, 1, index) \o SubSeq(cards, index + 2, Len(cards))

\* mutant of remove_card: an index past the end is clamped to the last card
remove_card_clamped(cards, index) ==
    LET i == IF index < Len(cards) THEN index ELSE Len(cards) - 1 IN
    IF Len(cards) > 0
        THEN [ok |-> TRUE,
              cards |-> SubSeq(cards, 1, i) \o SubSeq(cards, i + 2, Len(cards)),
              card |-> <<cards[i + 1]>>]
        ELSE [ok |-> FALSE, cards |-> cards, card |-> <<>>]

\* DeckState::remove_card: Ok(removed card) and the shortened deck, or Err
\* and the deck as it was
remove_card(cards, index) ==
    IF index < Len(cards)
        THEN [ok |-> TRUE, cards |-> vec_remove(cards, index),
              card |-> <<cards[index + 1]>>]
        ELSE [ok |-> FALSE, cards |-> cards, card |-> <<>>]

(***************************************************************************)
(* The deck file.  A file is missing, holds bytes that are no UTF-8 text   *)
(* (fs::read_to_string fails on both), or holds text: a sequence of lines. *)
(***************************************************************************)
Line(k, s, n) == [k |-> k, s |-> s, n |-> n]

NoFile == [kind |-> "missing", text |-> <<>>]
BinaryFile == [kind |-> "binary", text |-> <<>>]
TextFile(text) == [kind |-> "text", text |-> text]

\* mutant of card_lines: the two counters are written under each other's key
card_lines_swapped(c) ==
    << Line("[[cards]]", "", 0),
       Line("front", c.front, 0),
       Line("back", c.back, 0),
       Line("correct", "", c.incorrect),
       Line("incorrect", "", c.correct) >>

\* the five lines toml::to_string_pretty writes for one card
card_lines(c) ==
    << Line("[[cards]]", "", 0),
       Line("front", c.front, 0),
       Line("back", c.back, 0),
       Line("correct", "", c.correct),
       Line("incorrect", "", c.incorrect) >>

RECURSIVE cards_lines(_)
cards_lines(cards) ==
    IF cards = <<>> THEN <<>>
    ELSE card_lines(Head(cards)) \o cards_lines(Tail(cards))

\* toml::to_string_pretty(&DeckState): an empty Vec is written inline, a
\* non-empty one as an array of tables
to_string_pretty(cards) ==
    IF cards = <<>> THEN << Line("cards = []", "", 0) >> ELSE cards_lines(cards)

\* the four keys of one [[cards]] table, in any order, each once
table_ok(text, at) ==
    /\ text[at].k = "[[cards]]"
    /\ \A key \in {"front", "back", "correct", "incorrect"} :
          Cardinality({j \in 1..4 : text[at + j].k = key}) = 1

table_line(text, at, key) == text[at + (CHOOSE j \in 1..4 : text[at + j].k = key)]

table_card(text, at) ==
    Flashcard(table_line(text, at, "front").s, table_line(text, at, "back").s,
              table_line(text, at, "correct").n, table_line(text, at, "incorrect").n)

\* toml::from_str::<DeckState> succeeds: the text has the key cards, as an
\* empty inline array or as tables that each have the four fields
from_str_ok(text) ==
    \/ text = << Line("cards = []", "", 0) >>
    \/ /\ Len(text) > 0
       /\ Len(text) % 5 = 0
       /\ \A g \in 0..((Len(text) \div 5) - 1) : table_ok(text, 5 * g + 1)

\* mutant of from_str: the last table is not read
from_str_short(text) ==
    IF text = << Line("cards = []", "", 0) >> THEN <<>>
    ELSE [g \in 1..((Len(text) \div 5) - 1) |-> table_card(text, 5 * (g - 1) + 1)]

\* the deck toml::from_str::<DeckState> returns when it succeeds
from_str(text) ==
    IF text = << Line("cards = []", "", 0) >> THEN <<>>
    ELSE [g \in 1..(Len(text) \div 5) |-> table_card(text, 5 * (g - 1) + 1)]

\* load_state: the parsed deck, or an empty deck when the file cannot be
\* read or parsed
load_state(f) ==
    IF f.kind = "text" /\ from_str_ok(f.text) THEN from_str(f.text)
    ELSE DeckState_new

\* mutant of save_state: the result of fs::write is dropped (let _ = ..)
save_state_swallows(f, cards) ==
    {[file |-> TextFile(to_string_pretty(cards)), exit |-> "ok", wrote |-> TRUE],
     [file |-> f, exit |-> "ok", wrote |-> FALSE],
     [file |-> TextFile(<<>>), exit |-> "ok", wrote |-> FALSE]}

\* save_state: what fs::write(..).unwrap() can leave behind.  On success the
\* file holds the serialised deck; on failure the process panics and the file
\* is as it was or, when the failure came after the file was opened for
\* writing, truncated.
save_state(f, cards) ==
    {[file |-> TextFile(to_string_pretty(cards)), exit |-> "ok", wrote |-> TRUE],
     [file |-> f, exit |-> "panic", wrote |-> FALSE],
     [file |-> TextFile(<<>>), exit |-> "panic", wrote |-> FALSE]}

(***************************************************************************)
(* Initial state: no process has run yet; the file is anything a user may  *)
(* have left at the path.                                                  *)
(***************************************************************************)
InitDecks == {<<>>} \cup {<< c >> : c \in FileCards}

InitFiles ==
    {NoFile, BinaryFile,
     TextFile(<<>>),
     TextFile(<< Line("front", "a", 0) >>),
     TextFile(<< Line("[[cards]]", "", 0), Line("front", "a", 0),
                 Line("back", "x", 0), Line("correct", "", 0),
                 Line("correct", "", 1) >>)}
    \cup {TextFile(to_string_pretty(d)) : d \in InitDecks}

Init ==
    /\ file \in InitFiles
    /\ pc = "shell"
    /\ action = Act("none", "", "", 0)
    /\ state = <<>>
    /\ app = <<>>
    /\ screen = <<>>
    /\ out = <<>>
    /\ exit = "none"
    /\ hist = <<>>
    /\ saved = "none"
    /\ turns = 0

\* a process starts: Args::parse() gives the command; nothing of the last
\* process is left
Start(a) ==
    /\ pc = "shell"
    /\ action' = a
    /\ app' = <<>>
    /\ screen' = <<>>
    /\ hist' = <<>>
    /\ turns' = 0

\* mutant of Finish: the command returns without save_state
Finish_without_save(cards, printed) ==
    /\ state' = cards
    /\ out' = printed
    /\ file' = file
    /\ exit' = "ok"
    /\ saved' = "none"
    /\ pc' = "shell"

\* the tail of main for a command that is over: the lines it printed, then
\* save_state and Ok(())
Finish(cards, printed) ==
    \E s \in save_state(file, cards) :
        /\ state' = cards
        /\ out' = printed
        /\ file' = s.file
        /\ exit' = s.exit
        /\ saved' = IF s.wrote THEN "written" ELSE "failed"
        /\ pc' = "shell"

(***************************************************************************)
(* main, Action::Add                                                       *)
(***************************************************************************)
Add(front, back) ==
    /\ Start(Act("add", front, back, 0))
    /\ Len(load_state(file)) < MaxLen
    /\ Finish(add_card(load_state(file), Flashcard_from(front, back)),
              << Msg("Adding flashcard", 0, front, back) >>)

(***************************************************************************)
(* main, Action::Remove: remove_card(index - 1)                            *)
(***************************************************************************)
Remove(index) ==
    /\ Start(Act("remove", "", "", index))
    /\ \E i \in usize_sub(index, 1) :
          IF i.panic
              THEN /\ state' = load_state(file)
                   /\ out' = <<>>
                   /\ exit' = "panic"
                   /\ saved' = "none"
                   /\ pc' = "shell"
                   /\ UNCHANGED file
              ELSE LET r == remove_card(load_state(file), i.val) IN
                   IF r.ok
                       THEN Finish(r.cards,
                                   << Msg("Removed card nbr", index,
                                          r.card[1].front, r.card[1].back) >>)
                       ELSE Finish(r.cards, << Msg("Index out of bounds", 0, "", "") >>)

(***************************************************************************)
(* main, Action::List.  path_utf8: whether the path given with --file is   *)
(* valid UTF-8; to_str().unwrap() panics when it is not.                   *)
(***************************************************************************)
list_lines(cards) ==
    [i \in 1..Len(cards) |-> Msg("card", i, cards[i].front, cards[i].back)]

List(path_utf8) ==
    /\ Start(Act("list", "", "", 0))
    /\ IF path_utf8
           THEN Finish(load_state(file),
                       << Msg("Cards in", 0, "", "") >> \o list_lines(load_state(file)))
           ELSE /\ state' = load_state(file)
                /\ out' = <<>>
                /\ exit' = "panic"
                /\ saved' = "none"
                /\ pc' = "shell"
                /\ UNCHANGED file

(***************************************************************************)
(* FlipApp                                                                 *)
(***************************************************************************)
\* FlipApp::new
FlipApp_new(cards) ==
    [should_exit |-> FALSE, deck |-> cards, order |-> "Sequential",
     show_side |-> "Front", index |-> 0]

\* FlipApp::flip_card
flip_card(a) == [a EXCEPT !.show_side = toggle(a.show_side)]

\* mutant of render: the side is not looked at, the front is shown
render_front(a) ==
    [text |-> a.deck[a.index + 1].front,
     pos |-> a.index + 1,
     len |-> Len(a.deck)]

\* FlipApp::render: the paragraph text and the gauge label index+1 / len
render(a) ==
    [text |-> IF a.show_side = "Front" THEN a.deck[a.index + 1].front
                                       ELSE a.deck[a.index + 1].back,
     pos |-> a.index + 1,
     len |-> Len(a.deck)]

(***************************************************************************)
(* main, Action::Flip                                                      *)
(***************************************************************************)
\* mutant of deck_is_empty: < for <=
deck_is_empty_strict(cards) == Len(cards) < 0

\* the guard of main: state.cards.len() <= 0
deck_is_empty(cards) == Len(cards) <= 0

\* flip on an empty deck: the message, no session
FlipEmpty ==
    /\ Start(Act("flip", "", "", 0))
    /\ deck_is_empty(load_state(file))
    /\ Finish(load_state(file), << Msg("Deck is empty", 0, "", "") >>)

\* flip otherwise: FlipApp::new(..).run(terminal) is entered
FlipStart ==
    /\ pc = "shell"
    /\ ~ deck_is_empty(load_state(file))
    /\ action' = Act("flip", "", "", 0)
    /\ state' = load_state(file)
    /\ app' = << FlipApp_new(load_state(file)) >>
    /\ screen' = <<>>
    /\ hist' = <<>>
    /\ out' = <<>>
    /\ exit' = "none"
    /\ saved' = "none"
    /\ turns' = 0
    /\ pc' = "loop"
    /\ UNCHANGED file

\* the process dies in the session: a panic, or an io::Error that run
\* returns and main passes on with ?; save_state is not reached
Abort(how) ==
    /\ exit' = how
    /\ pc' = "shell"
    /\ app' = <<>>
    /\ screen' = <<>>
    /\ hist' = <<>>
    /\ turns' = 0
    /\ UNCHANGED <<file, action, state, out, saved>>

\* while !self.should_exit { terminal.draw(|frame| self.render(frame))?
Draw ==
    /\ pc = "loop"
    /\ ~ app[1].should_exit
    /\ IF app[1].index < Len(app[1].deck)
           THEN /\ screen' = << render(app[1]) >>
                /\ pc' = "read"
                /\ UNCHANGED <<file, action, state, app, out, exit, hist, saved, turns>>
           ELSE Abort("panic")

\* terminal.draw fails
DrawFail ==
    /\ pc = "loop"
    /\ ~ app[1].should_exit
    /\ Abort("err")

\* mutant of LoopExit: the session's card is marked correct in the deck that
\* is saved
LoopExit_marks ==
    /\ pc = "loop"
    /\ app[1].should_exit
    /\ \E s \in save_state(file, [state EXCEPT ![app[1].index + 1].correct = @ + 1]) :
          /\ file' = s.file
          /\ exit' = s.exit
          /\ saved' = IF s.wrote THEN "written" ELSE "failed"
    /\ pc' = "shell"
    /\ app' = <<>>
    /\ screen' = <<>>
    /\ hist' = <<>>
    /\ turns' = 0
    /\ UNCHANGED <<action, state, out>>

\* the loop is left: run returns Ok(()), main saves the deck
LoopExit ==
    /\ pc = "loop"
    /\ app[1].should_exit
    /\ \E s \in save_state(file, state) :
          /\ file' = s.file
          /\ exit' = s.exit
          /\ saved' = IF s.wrote THEN "written" ELSE "failed"
    /\ pc' = "shell"
    /\ app' = <<>>
    /\ screen' = <<>>
    /\ hist' = <<>>
    /\ turns' = 0
    /\ UNCHANGED <<action, state, out>>

\* the history of the session's input events
Remember(ev) ==
    LET h == Append(hist, [ev |-> ev, side |-> app[1].show_side,
                           index |-> app[1].index, exit |-> app[1].should_exit])
    IN hist' = IF Len(h) > 2 THEN Tail(h) ELSE h

\* the history of the session's flips and moves: a is the session before
\* the key press, b after it
Count(code, a, b) ==
    turns' = IF code = "f" \/ b.index # a.index THEN 1 - turns ELSE turns

\* KeyCode::Char('q')
on_quit(a) == {[panic |-> FALSE, app |-> [a EXCEPT !.should_exit = TRUE]]}

\* KeyCode::Char('f')
on_flip(a) == {[panic |-> FALSE, app |-> flip_card(a)]}

\* mutant of on_next: the card moved to is shown front up
on_next_front(a) ==
    {IF a.index < Len(a.deck) - 1
         THEN [panic |-> FALSE,
               app |-> [a EXCEPT !.index = a.index + 1, !.show_side = "Front"]]
         ELSE [panic |-> FALSE, app |-> a]}

\* mutant of on_next: the guard compares with len, not len - 1
on_next_past_end(a) ==
    {IF a.index < Len(a.deck)
         THEN [panic |-> FALSE, app |-> flip_card([a EXCEPT !.index = a.index + 1])]
         ELSE [panic |-> FALSE, app |-> a]}

\* KeyCode::Char('n')
on_next(a) ==
    {IF last.panic THEN [panic |-> TRUE, app |-> a]
     ELSE IF a.index < last.val
         THEN [panic |-> FALSE, app |-> flip_card([a EXCEPT !.index = a.index + 1])]
         ELSE [panic |-> FALSE, app |-> a]
     : last \in usize_sub(Len(a.deck), 1)}

\* mutant of on_back: back on the first card wraps around to the last
on_back_wraps(a) ==
    {IF a.index > 0
         THEN [panic |-> FALSE, app |-> flip_card([a EXCEPT !.index = a.index - 1])]
         ELSE [panic |-> FALSE,
               app |-> flip_card([a EXCEPT !.index = Len(a.deck) - 1])]}

\* KeyCode::Char('b')
on_back(a) ==
    {IF a.index > 0
         THEN [panic |-> FALSE, app |-> flip_card([a EXCEPT !.index = a.index - 1])]
         ELSE [panic |-> FALSE, app |-> a]}

\* mutant of on_other: an unknown key ends the session
on_other_quits(a) == {[panic |-> FALSE, app |-> [a EXCEPT !.should_exit = TRUE]]}

\* mutant of on_other: an unknown key flips the card
on_other_flips(a) == {[panic |-> FALSE, app |-> flip_card(a)]}

\* any other key: _ => {}
on_other(a) == {[panic |-> FALSE, app |-> a]}

\* match key.code
on_key(a, code) ==
    CASE code = "q" -> on_quit(a)
      [] code = "f" -> on_flip(a)
      [] code = "n" -> on_next(a)
      [] code = "b" -> on_back(a)
      [] OTHER -> on_other(a)

\* the key codes tried: the four the program knows and one it does not
KeyCodes == {"q", "f", "n", "b", "x"}

\* event::read() returns a key press
Key(code) ==
    /\ pc = "read"
    /\ \E r \in on_key(app[1], code) :
          IF r.panic
              THEN Abort("panic")
              ELSE /\ app' = << r.app >>
                   /\ Remember(code)
                   /\ Count(code, app[1], r.app)
                   /\ pc' = "loop"
                   /\ UNCHANGED <<file, action, state, screen, out, exit, saved>>

\* event::read() returns an event that is no key press (a resize, a mouse
\* event, a key release): as_key_press_event() is None
NonKey ==
    /\ pc = "read"
    /\ Remember("event")
    /\ pc' = "loop"
    /\ UNCHANGED <<file, action, state, app, screen, out, exit, saved, turns>>

\* event::read() fails
ReadFail ==
    /\ pc = "read"
    /\ Abort("err")

\* the 1-based indices tried with remove
Indices == 0..(MaxLen + 1) \cup {UsizeMax}

Next ==
    \/ \E f \in Fronts, b \in Backs : Add(f, b)
    \/ \E i \in Indices : Remove(i)
    \/ \E u \in BOOLEAN : List(u)
    \/ FlipEmpty
    \/ FlipStart
    \/ Draw
    \/ DrawFail
    \/ LoopExit
    \/ \E c \in KeyCodes : Key(c)
    \/ NonKey
    \/ ReadFail

Spec == Init /\ [][Next]_vars

TypeOK ==
    /\ pc \in {"shell", "loop", "read"}
    /\ exit \in {"none", "ok", "err", "panic"}
    /\ Len(app) <= 1
    /\ Len(screen) <= 1
    /\ Len(hist) <= 2
    /\ Len(state) <= MaxLen

(***************************************************************************)
(* Properties.                                                             *)
(***************************************************************************)
\* a flip session is running
InSession == pc \in {"loop", "read"}

\* the last input event the session handled, with the fields before it
Last == hist[Len(hist)]

\* the deck a process starting now would load
Loaded == load_state(file)

OutOfBoundsMsg == Msg("Index out of bounds", 0, "", "")

\* C1: in every state of a flip session (it is started on a non-empty deck
\* only), after any key presses, 0 <= index < len(deck); so the position
\* shown, index + 1, is within 1..len(deck) and render's deck[index] is in
\* bounds.
C1_IndexInBounds ==
    InSession =>
        /\ Len(app[1].deck) > 0
        /\ 0 <= app[1].index
        /\ app[1].index < Len(app[1].deck)
        /\ screen # <<>> =>
              /\ 1 <= screen[1].pos
              /\ screen[1].pos <= screen[1].len
              /\ screen[1].len = Len(app[1].deck)

\* C1 witness: a next pressed on the last card of a deck of two or more, and
\* the card drawn after it
C1_Witness ==
    /\ pc = "read"
    /\ hist # <<>>
    /\ Last.ev = "n"
    /\ Last.index = Len(app[1].deck) - 1
    /\ Len(app[1].deck) >= 2
    /\ screen[1].pos = Len(app[1].deck)

\* C2: next at index len-1 and back at index 0 leave the index as it is (no
\* wraparound); at any other index next adds exactly 1 and back subtracts
\* exactly 1.
C2_NextBackClamped ==
    (InSession /\ hist # <<>>) =>
        /\ Last.ev = "n" =>
              app[1].index = IF Last.index = Len(app[1].deck) - 1
                                 THEN Last.index ELSE Last.index + 1
        /\ Last.ev = "b" =>
              app[1].index = IF Last.index = 0 THEN 0 ELSE Last.index - 1

\* C2 witness: a next clamped at the last card, then a back that moves
C2_Witness ==
    /\ InSession
    /\ Len(hist) = 2
    /\ Len(app[1].deck) >= 2
    /\ hist[1].ev = "n"
    /\ hist[1].index = Len(app[1].deck) - 1
    /\ hist[2].ev = "b"
    /\ hist[2].index = Len(app[1].deck) - 1
    /\ app[1].index = Len(app[1].deck) - 2

\* C3: remove with a 1-based index k, 1 <= k <= N, on a deck of N cards
\* removes the card list shows at position k: the deck left has N-1 cards,
\* the card reported is that card, and the other cards are kept in their
\* order.
C3_RemoveValid ==
    [][ (pc = "shell" /\ action'.type = "remove"
         /\ 1 <= action'.index /\ action'.index <= Len(Loaded)) =>
        LET k == action'.index
            shown == list_lines(Loaded)[k]
        IN /\ Len(state') = Len(Loaded) - 1
           /\ \A j \in 1..(k - 1) : state'[j] = Loaded[j]
           /\ \A j \in k..(Len(Loaded) - 1) : state'[j] = Loaded[j + 1]
           /\ out' = << Msg("Removed card nbr", shown.n, shown.front, shown.back) >>
           /\ exit' = "ok" => load_state(file') = state'
      ]_vars

\* C3 witness: the middle card of three was removed and two different cards
\* are left
C3_Witness ==
    /\ pc = "shell"
    /\ action.type = "remove"
    /\ action.index = 2
    /\ exit = "ok"
    /\ Len(state) = 2
    /\ state[1] # state[2]
    /\ Len(out) = 1
    /\ out[1].text = "Removed card nbr"

\* C4: remove_card with an internal index >= len(cards) returns the
\* out-of-bounds error and leaves the deck as it was, the empty deck
\* included.  (remove_card is reached unless index - 1 panicked, and then it
\* is the only thing that prints.)
C4_RemoveOutOfBounds ==
    [][ (pc = "shell" /\ action'.type = "remove" /\ out' # <<>>
         /\ ~ (1 <= action'.index /\ action'.index <= Len(Loaded))) =>
        /\ out' = << OutOfBoundsMsg >>
        /\ state' = Loaded
        /\ Len(state') = Len(Loaded)
      ]_vars

\* C4 witness: remove 0 on a non-empty deck where 0 - 1 wrapped around, so
\* remove_card got usize::MAX
C4_Witness ==
    /\ pc = "shell"
    /\ action.type = "remove"
    /\ action.index = 0
    /\ out = << OutOfBoundsMsg >>
    /\ Len(state) > 0
    /\ exit = "ok"

\* C5 (the claim as stated): remove with any 1-based index outside [1, len],
\* 0 included, reports out-of-bounds as a message, does not crash and leaves
\* the deck as it was.
C5_RemoveReportsOutOfBounds ==
    [][ (pc = "shell" /\ action'.type = "remove"
         /\ ~ (1 <= action'.index /\ action'.index <= Len(Loaded))) =>
        /\ out' = << OutOfBoundsMsg >>
        /\ state' = Loaded
      ]_vars

\* C6: flip on a deck with no cards is refused: the empty deck is reported,
\* no session object exists, nothing is drawn, no input is read, and the
\* deck is not changed.
C6_FlipEmptyRefused ==
    [][ (pc = "shell" /\ action'.type = "flip" /\ Len(Loaded) = 0) =>
        /\ out' = << Msg("Deck is empty", 0, "", "") >>
        /\ pc' = "shell"
        /\ app' = <<>>
        /\ screen' = <<>>
        /\ hist' = <<>>
        /\ state' = Loaded
        /\ exit' = "ok" => load_state(file') = Loaded
      ]_vars

\* C6 witness: flip was run on an empty deck and the process ended normally
C6_Witness ==
    /\ pc = "shell"
    /\ action.type = "flip"
    /\ out = << Msg("Deck is empty", 0, "", "") >>
    /\ state = <<>>
    /\ exit = "ok"

\* C7: the flip key toggles the visible side between Front and Back and
\* changes nothing else (index, exit flag); two flips in a row give back the
\* side shown before them.
C7_FlipToggles ==
    (InSession /\ hist # <<>>) =>
        /\ app[1].show_side \in Sides
        /\ Last.ev = "f" =>
              /\ app[1].show_side # Last.side
              /\ app[1].index = Last.index
              /\ app[1].should_exit = Last.exit
        /\ (Len(hist) = 2 /\ hist[1].ev = "f" /\ hist[2].ev = "f") =>
              app[1].show_side = hist[1].side

\* C7 witness: two flips in a row that began on the back of a later card
C7_Witness ==
    /\ InSession
    /\ Len(hist) = 2
    /\ hist[1].ev = "f"
    /\ hist[2].ev = "f"
    /\ hist[1].side = "Back"
    /\ hist[1].index > 0
    /\ app[1].show_side = "Back"

\* C8 (the claim as stated): the loop is left exactly when the exit flag is
\* set: q sets it from any session state, the loop then ends without reading
\* more input, and no other input sets it.
C8_LoopExitsOnlyOnQuit ==
    [][ /\ (InSession /\ pc' = "shell") => app[1].should_exit
        /\ (InSession /\ app[1].should_exit) => pc' = "shell"
        /\ (pc = "read" /\ pc' = "loop") =>
              app'[1].should_exit = (hist'[Len(hist')].ev = "q")
      ]_vars

\* C8 (amended): the loop returns normally exactly when the exit flag is
\* set: q sets it from any session state, the loop then ends without reading
\* or drawing again, and no other input sets it; the only other way out of
\* the loop is an I/O error of terminal.draw or event::read, which ends the
\* process with that error while the flag is not set.
C8_LoopReturnsOnlyOnQuit ==
    [][ /\ (InSession /\ pc' = "shell") => (app[1].should_exit <=> exit' # "err")
        /\ (InSession /\ app[1].should_exit) => (pc' = "shell" /\ exit' # "err")
        /\ pc = "read" => ~ app[1].should_exit
        /\ (pc = "read" /\ pc' = "loop") =>
              app'[1].should_exit = (hist'[Len(hist')].ev = "q")
      ]_vars

\* C8 witness: q was pressed on the back of a later card; the flag is set and
\* the loop is at its head
C8_Witness ==
    /\ pc = "loop"
    /\ app[1].should_exit
    /\ Last.ev = "q"
    /\ Last.side = "Back"
    /\ Last.index > 0
    /\ ~ Last.exit

\* C9: an input the session does not know (a key other than q, f, n, b, or
\* an event that is no key press) changes nothing: index, visible side, exit
\* flag and the session's deck stay, and the loop goes on to the next input.
C9_UnknownInputNoChange ==
    [][ (pc = "read" /\ pc' = "loop" /\ hist'[Len(hist')].ev \in {"x", "event"}) =>
        /\ app'[1].index = app[1].index
        /\ app'[1].show_side = app[1].show_side
        /\ app'[1].should_exit = app[1].should_exit
        /\ app'[1].deck = app[1].deck
        /\ ~ app'[1].should_exit
        /\ state' = state
        /\ file' = file
      ]_vars

\* C9 witness: an event that is no key press, then an unknown key, on the
\* back of a later card; the session waits for the next input
C9_Witness ==
    /\ pc = "read"
    /\ Len(hist) = 2
    /\ hist[1].ev = "event"
    /\ hist[2].ev = "x"
    /\ app[1].show_side = "Back"
    /\ app[1].index > 0

\* C10 (the claim as stated): every input the session does not know is
\* reported to the user ("command does not exist") before the loop waits for
\* the next input.
C10_UnknownInputReported ==
    (pc = "read" /\ hist # <<>> /\ Last.ev \in {"x", "event"}) =>
        \/ \E i \in 1..Len(out) : out[i].text = "command does not exist"
        \/ screen[1].text = "command does not exist"

\* C11: a flip session records no correctness: whatever keys are pressed,
\* the deck written after the session has the same cards in the same order,
\* with the same front, back, correct and incorrect, as the deck loaded
\* before it; the session works on its own copy of the cards and changes only
\* its index, visible side and exit flag.
C11_FlipKeepsDeck ==
    [][ InSession =>
        /\ state = Loaded
        /\ app[1].deck = Loaded
        /\ state' = state
        /\ pc' # "shell" => (file' = file /\ app'[1].deck = app[1].deck)
        /\ (pc' = "shell" /\ exit' = "ok") =>
              /\ Len(load_state(file')) = Len(Loaded)
              /\ \A j \in 1..Len(Loaded) :
                    /\ load_state(file')[j].front = Loaded[j].front
                    /\ load_state(file')[j].back = Loaded[j].back
                    /\ load_state(file')[j].correct = Loaded[j].correct
                    /\ load_state(file')[j].incorrect = Loaded[j].incorrect
      ]_vars

\* C11 witness: a session on two cards, one of them with a counter that is
\* not 0, was ended with q and the deck was written
C11_Witness ==
    /\ pc = "shell"
    /\ action.type = "flip"
    /\ out = <<>>
    /\ exit = "ok"
    /\ saved = "written"
    /\ Len(state) = 2
    /\ state[1].correct > 0
    /\ load_state(file) = state

\* the card d is the card c with counters that are not smaller
NotLess(c, d) ==
    /\ d.front = c.front
    /\ d.back = c.back
    /\ d.correct >= c.correct
    /\ d.incorrect >= c.incorrect

\* the deck new is the deck old after at most one command: as it was, with
\* one card removed, or with one card with counters 0 added at the end; the
\* cards that stay keep their counters or have larger ones
Kept(old, new) ==
    \/ /\ Len(new) = Len(old)
       /\ \A j \in 1..Len(old) : NotLess(old[j], new[j])
    \/ /\ Len(new) = Len(old) - 1
       /\ \E k \in 1..Len(old) :
             /\ \A j \in 1..(k - 1) : NotLess(old[j], new[j])
             /\ \A j \in k..Len(new) : NotLess(old[j + 1], new[j])
    \/ /\ Len(new) = Len(old) + 1
       /\ \A j \in 1..Len(old) : NotLess(old[j], new[j])
       /\ new[Len(new)].correct = 0
       /\ new[Len(new)].incorrect = 0

\* C12: across any commands (add, remove, list, flip) the correct and
\* incorrect counters of a card that stays in the deck never decrease, are
\* never reset and are never negative; a card made by add starts with both
\* at 0.
C12_CountersKept ==
    [][ /\ \A j \in 1..Len(state') :
              state'[j].correct >= 0 /\ state'[j].incorrect >= 0
        /\ pc = "shell" =>
              /\ Kept(Loaded, state')
              /\ action'.type = "add" =>
                    /\ Len(state') = Len(Loaded) + 1
                    /\ state'[Len(state')] =
                          Flashcard(action'.front, action'.back, 0, 0)
              /\ exit' = "ok" => Kept(Loaded, load_state(file'))
        /\ InSession =>
              /\ state' = state
              /\ (pc' = "shell" /\ exit' = "ok") => Kept(Loaded, load_state(file'))
      ]_vars

\* C12 witness: a card was added behind a card whose incorrect counter is 1
C12_Witness ==
    /\ pc = "shell"
    /\ action.type = "add"
    /\ exit = "ok"
    /\ Len(state) >= 2
    /\ state[1].incorrect = 1
    /\ state[Len(state)].correct = 0
    /\ state[Len(state)].incorrect = 0
    /\ load_state(file) = state

\* C13: add(front, back) puts exactly one card with that front and back at
\* the end of the deck and leaves every card that was there at its position;
\* list prints the cards numbered 1..len in the order of the deck, which is
\* therefore the order in which they were added.
C13_AddAppendsListInOrder ==
    [][ pc = "shell" =>
        /\ action'.type = "add" =>
              /\ Len(state') = Len(Loaded) + 1
              /\ \A p \in 1..Len(Loaded) : state'[p] = Loaded[p]
              /\ state'[Len(state')].front = action'.front
              /\ state'[Len(state')].back = action'.back
              /\ out' = << Msg("Adding flashcard", 0, action'.front, action'.back) >>
              /\ exit' = "ok" =>
                    /\ Len(load_state(file')) = Len(Loaded) + 1
                    /\ \A p \in 1..Len(Loaded) : load_state(file')[p] = Loaded[p]
        /\ (action'.type = "list" /\ out' # <<>>) =>
              /\ state' = Loaded
              /\ Len(out') = Len(Loaded) + 1
              /\ out'[1].text = "Cards in"
              /\ \A p \in 1..Len(Loaded) :
                    /\ out'[p + 1].n = p
                    /\ out'[p + 1].front = Loaded[p].front
                    /\ out'[p + 1].back = Loaded[p].back
      ]_vars

\* C13 witness: list printed a deck of three cards, of which the first was in
\* the initial file and the other two, with different fronts, were added
C13_Witness ==
    /\ pc = "shell"
    /\ action.type = "list"
    /\ exit = "ok"
    /\ Len(state) = 3
    /\ Len(out) = 4
    /\ state[1].correct > 0
    /\ state[2].front = "b"
    /\ state[3].front = "a"
    /\ out[3].front = "b"
    /\ out[4].front = "a"
    /\ out[4].n = 3

\* texts that are no deck: an empty file, a file without the key cards, a
\* table with correct twice and no incorrect
NoDeckTexts ==
    { <<>>,
      << Line("front", "a", 0) >>,
      << Line("[[cards]]", "", 0), Line("front", "a", 0), Line("back", "x", 0),
         Line("correct", "", 0), Line("correct", "", 1) >> }

\* the file cannot be read or holds no deck
NoDeckFile == file.kind # "text" \/ file.text \in NoDeckTexts

\* the deck the command of this step worked on, for add, list and flip
Saw ==
    IF action'.type = "add" THEN SubSeq(state', 1, Len(state') - 1) ELSE state'

\* C14: load gives an empty deck, and no error or crash, when the file is
\* missing, unreadable or unparsable; for a file that holds a persisted deck
\* it gives exactly that deck.
C14_LoadFallsBackOrReturnsDeck ==
    [][ (pc = "shell" /\ action'.type \in {"add", "list", "flip"}) =>
        /\ NoDeckFile =>
              /\ Saw = <<>>
              /\ action'.type = "add" => out' # <<>>
              /\ action'.type = "flip" => out' = << Msg("Deck is empty", 0, "", "") >>
        /\ \A d \in InitDecks : file = TextFile(to_string_pretty(d)) => Saw = d
        /\ saved = "written" => Saw = state
      ]_vars

\* C14 witness: flip found no file, took the deck as empty and said so; the
\* file is still missing because the write failed
C14_Witness ==
    /\ pc = "shell"
    /\ file.kind = "missing"
    /\ action.type = "flip"
    /\ state = <<>>
    /\ out = << Msg("Deck is empty", 0, "", "") >>
    /\ saved = "failed"

\* C15: a failed write of the deck is not swallowed: the command that saved
\* ends with an error outcome and never as a success.
C15_SaveFailureSurfaces ==
    /\ saved = "failed" => (pc = "shell" /\ exit = "panic")
    /\ exit = "ok" => saved = "written"

\* C15 witness: the write of add failed after the file was opened, the file
\* is cut to nothing and the process ended by a panic
C15_Witness ==
    /\ pc = "shell"
    /\ action.type = "add"
    /\ saved = "failed"
    /\ exit = "panic"
    /\ file = TextFile(<<>>)
    /\ Len(state) >= 2

\* C16: the whole deck is written back after every command: when a command
\* (add, remove that removed, remove that failed, list, flip ended by q, flip
\* refused on an empty deck) ends normally, the file holds exactly the deck
\* the process had at its end, so the next invocation loads that deck.
C16_DeckPersisted ==
    (pc = "shell" /\ exit = "ok") =>
        /\ action.type \in {"add", "remove", "list", "flip"}
        /\ file.kind = "text"
        /\ from_str_ok(file.text)
        /\ Len(load_state(file)) = Len(state)
        /\ \A j \in 1..Len(state) : load_state(file)[j] = state[j]

\* C16 witness: add on an empty deck ended normally and the file holds the
\* one card
C16_Witness ==
    /\ pc = "shell"
    /\ action.type = "add"
    /\ exit = "ok"
    /\ state = << Flashcard("b", "x", 0, 0) >>
    /\ load_state(file) = state
    /\ Len(file.text) = 5

\* C17: the weight of a card with no attempts (correct + incorrect = 0) is
\* exactly 3.0, and the weight of a card with correct = c, incorrect = i,
\* c + i > 0, is exactly (i + 1) / (c + i), which is > 0.
C17_Weight ==
    \A j \in 1..Len(state) :
        LET c == state[j].correct
            i == state[j].incorrect
            w == weight(state[j])
        IN /\ w.den > 0
           /\ w.num > 0
           /\ c + i = 0 => w.num = 3 * w.den
           /\ c + i > 0 => w.num * (c + i) = (i + 1) * w.den

\* C17 witness: a deck with a card answered once wrong and never right (its
\* weight is 2) and a card never answered (its weight is 3)
C17_Witness ==
    /\ Len(state) >= 2
    /\ state[1].correct = 0
    /\ state[1].incorrect = 1
    /\ weight(state[1]).num = 2 * weight(state[1]).den
    /\ state[2].correct + state[2].incorrect = 0
    /\ weight(state[2]).num = 3 * weight(state[2]).den

\* C18: an n or b key press that changes the index also toggles the visible
\* side (it is neither reset to Front nor kept), and one clamped at an end
\* changes neither index nor side; so the visible side is Front exactly when
\* the number of f key presses plus the number of index-changing n and b key
\* presses so far is even.
C18_MoveToggles ==
    InSession =>
        /\ app[1].show_side = "Front" <=> turns = 0
        /\ (hist # <<>> /\ Last.ev \in {"n", "b"}) =>
              /\ app[1].index # Last.index => app[1].show_side # Last.side
              /\ app[1].index = Last.index => app[1].show_side = Last.side

\* C18 witness: b clamped on the first card with the back up, then n moved
\* to the second card, which shows its front
C18_Witness ==
    /\ InSession
    /\ Len(hist) = 2
    /\ hist[1].ev = "b"
    /\ hist[1].index = 0
    /\ hist[1].side = "Back"
    /\ hist[2].ev = "n"
    /\ hist[2].index = 0
    /\ hist[2].side = "Back"
    /\ app[1].index = 1
    /\ app[1].show_side = "Front"
    /\ turns = 0

\* what the screen must show for the session as it is
Shown ==
    /\ Len(screen) = 1
    /\ screen[1].text = IF app[1].show_side = "Front"
                            THEN app[1].deck[app[1].index + 1].front
                            ELSE app[1].deck[app[1].index + 1].back
    /\ screen[1].pos = app[1].index + 1
    /\ screen[1].len = Len(app[1].deck)

\* C19: each iteration of the loop handles exactly one input event, and
\* every read of input comes right after a render of the session as it then
\* is: after a transition that does not exit, the new state is drawn before
\* the loop blocks again; render changes neither index, visible side, exit
\* flag nor deck.
C19_RenderBeforeRead ==
    [][ /\ pc = "read" => Shown
        /\ pc' = "read" =>
              /\ pc = "loop"
              /\ app' = app
              /\ state' = state
              /\ file' = file
              /\ hist' = hist
        /\ pc = "read" => pc' \in {"loop", "shell"}
        /\ (pc = "read" /\ pc' = "loop") =>
              /\ hist' # <<>>
              /\ Len(hist) < 2 => SubSeq(hist', 1, Len(hist')  - 1) = hist
              /\ Len(hist) = 2 => hist'[1] = hist[2]
        /\ (pc = "loop" /\ ~ app[1].should_exit) => pc' \in {"read", "shell"}
      ]_vars

\* C19 witness: after n and f the second card is drawn front up (n moved and
\* toggled, f toggled back) and the loop waits for input
C19_Witness ==
    /\ pc = "read"
    /\ Len(hist) = 2
    /\ hist[1].ev = "n"
    /\ hist[1].index = 0
    /\ hist[2].ev = "f"
    /\ app[1].index = 1
    /\ app[1].deck[2].front = "b"
    /\ screen[1].text = "b"
    /\ screen[1].pos = 2

\* the step ends, normally, a command that does not change the deck: list, a
\* remove that failed, flip refused on an empty deck, flip ended by q
ReadOnlyEnd ==
    /\ pc' = "shell"
    /\ exit' = "ok"
    /\ \/ InSession
       \/ /\ pc = "shell"
          /\ \/ action'.type \in {"list", "flip"}
             \/ action'.type = "remove" /\ out' = << OutOfBoundsMsg >>

\* C20: a command that does not change the deck leaves the stored cards as
\* they were: when the file held a deck, the card sequence stored after the
\* command is the one stored before it; when the file was missing or
\* unparsable, the command takes the deck as empty and the file then holds
\* the empty deck.
C20_ReadOnlyRoundTrip ==
    [][ ReadOnlyEnd =>
        IF file.kind = "text" /\ from_str_ok(file.text)
            THEN /\ file'.kind = "text"
                 /\ from_str_ok(file'.text)
                 /\ Len(load_state(file')) = Len(Loaded)
                 /\ \A j \in 1..Len(Loaded) : load_state(file')[j] = Loaded[j]
            ELSE /\ state' = <<>>
                 /\ file' = TextFile(<< Line("cards = []", "", 0) >>)
      ]_vars

\* C20 witness: a remove past the end of a one-card deck failed, and the file
\* holds the card with its counters, 1 and 0
C20_Witness ==
    /\ pc = "shell"
    /\ action.type = "remove"
    /\ action.index = 2
    /\ out = << OutOfBoundsMsg >>
    /\ exit = "ok"
    /\ Len(state) = 1
    /\ state[1].correct = 1
    /\ state[1].incorrect = 0
    /\ load_state(file) = state
====
